---- MODULE Spec2Model ----
(***************************************************************************)
(* Weekly schedule generation of the ai-scheduler project.                 *)
(*                                                                         *)
(* src/solver.py  generate_schedule builds a 0/1 model (one boolean per    *)
(*                (employee, day, shift, task)), hands it to CP-SAT and    *)
(*                turns the solver's values into (schedule, unscheduled).  *)
(* src/app.py     get_solver_data reads the records and the Rule row and   *)
(*                builds the arguments of generate_schedule.               *)
(*                                                                         *)
(* One behaviour is one scheduling run: the arguments are drawn in Init,   *)
(* then the run goes  request -> call -> built -> solved -> done.          *)
(***************************************************************************)
EXTENDS Integers, Sequences, FiniteSets, TLC

VARIABLES
    employees,          \* list of {id, name, skills, unavailable_days}
    tasks,              \* list of {id, name, required_skill, priority}
    days,               \* list of day codes
    shifts,             \* list of shift codes
    preferences,        \* dict (employee id, task id) -> score
    rule_row,           \* the Rule record named max_shifts_per_week, if any
    rules,              \* dict passed to generate_schedule
    pc,                 \* position of the run
    assignment,         \* keys of the decision variables created so far
    model,              \* the CpModel: constraints and objective
    max_shifts,         \* local of generate_schedule
    status,             \* what solver.Solve returned
    solution,           \* the variables the solver set to 1
    schedule,           \* returned list of placements
    unscheduled_tasks   \* returned list of tasks

vars == <<employees, tasks, days, shifts, preferences, rule_row, rules, pc,
          assignment, model, max_shifts, status, solution, schedule,
          unscheduled_tasks>>

inputs == <<employees, tasks, days, shifts, preferences, rule_row>>

----------------------------------------------------------------------------
(* Bounds of the model *)

MaxEmployees == 2
MaxTasks == 2
MaxDays == 2
\* at most this many decision variables are created in one run
MaxVars == 8
MaxPriority == 2
MaxPref == 2
MaxPrefEntries == 1
MaxCap == 1

----------------------------------------------------------------------------
(* Program constants *)

DAYS == <<"Mon", "Tue", "Wed", "Thu", "Fri", "Sat", "Sun">>
SHIFTS == <<"Morning", "Evening">>
\* rules.get('max_shifts_per_week', 7)
DefaultMaxShifts == 7
\* ... if max_shifts_rule else 7
AppDefaultMaxShifts == 7

RuleName == "max_shifts_per_week"
\* Python's None as a task's required_skill
None == "<None>"
Skills == {"A", "B"}

----------------------------------------------------------------------------
(* Generic helpers *)

Range(s) == {s[i] : i \in DOMAIN s}

RECURSIVE SumOver(_, _)
SumOver(S, f) ==
    IF S = {} THEN 0
    ELSE LET v == CHOOSE w \in S : TRUE
         IN  f[v] + SumOver(S \ {v}, f)

\* dict.get(key, default)
DictGet(d, key, default) == IF key \in DOMAIN d THEN d[key] ELSE default

EmptyDict == [k \in {} |-> 0]

----------------------------------------------------------------------------
(* str() and int() of the Rule row's value *)

DigitChars == <<"0", "1", "2", "3", "4", "5", "6", "7", "8", "9">>

RECURSIVE NatToStr(_)
NatToStr(n) ==
    IF n < 10 THEN <<DigitChars[n + 1]>>
    ELSE Append(NatToStr(n \div 10), DigitChars[(n % 10) + 1])

\* str(form.max_shifts_per_week.data)
IntToStr(n) == IF n < 0 THEN <<"-">> \o NatToStr(-n) ELSE NatToStr(n)

DigitVal(c) == (CHOOSE i \in DOMAIN DigitChars : DigitChars[i] = c) - 1

RECURSIVE StrToNat(_)
StrToNat(s) ==
    IF s = <<>> THEN 0
    ELSE 10 * StrToNat(SubSeq(s, 1, Len(s) - 1)) + DigitVal(s[Len(s)])

\* int(max_shifts_rule.value)
StrToInt(s) == IF s[1] = "-" THEN -StrToNat(Tail(s)) ELSE StrToNat(s)

----------------------------------------------------------------------------
(* The arguments of a run *)

EmployeeIds == [i \in 1..(MaxEmployees + 1) |-> 10 * (MaxEmployees + 2 - i)]
TaskIds == [i \in 1..(MaxTasks + 1) |-> 100 * (MaxTasks + 2 - i)]
EmployeeNames == <<"Ann", "Bob", "Cy", "Di">>
TaskNames == <<"Audit", "Build", "Clean", "Deploy">>

\* skills.split(','): an employee has at least one skill tag (DataRequired)
SkillSets == {{"A"}, {"A", "B"}}
\* the first k days of the week, k = 0..MaxDays (with a one-day grid the
\* second day is an unavailable day outside the grid)
UnavailableSets == {{DAYS[d] : d \in 1..k} : k \in 0..MaxDays}

EmployeeRecords(i) ==
    [id : {EmployeeIds[i]}, name : {EmployeeNames[i]},
     skills : SkillSets,
     unavailable_days : UnavailableSets]

\* well-formed tasks, and the two malformed shapes: no required skill, and a
\* negative priority
TaskRecords(i) ==
    [id : {TaskIds[i]}, name : {TaskNames[i]},
     required_skill : Skills, priority : 1..MaxPriority]
    \cup
    [id : {TaskIds[i]}, name : {TaskNames[i]},
     required_skill : {None}, priority : {1}]
    \cup
    [id : {TaskIds[i]}, name : {TaskNames[i]},
     required_skill : {"A"}, priority : {-1}]

RECURSIVE EmployeeLists(_)
\* all employee lists of length n
EmployeeLists(n) ==
    IF n = 0 THEN {<<>>}
    ELSE {Append(l, r) : l \in EmployeeLists(n - 1), r \in EmployeeRecords(n)}

RECURSIVE TaskLists(_)
\* all task lists of length n
TaskLists(n) ==
    IF n = 0 THEN {<<>>}
    ELSE {Append(l, r) : l \in TaskLists(n - 1), r \in TaskRecords(n)}

PreferenceDicts(E, T) ==
    LET pairs == {<<e.id, t.id>> : e \in Range(E), t \in Range(T)}
    IN  UNION {[dom -> 1..MaxPref] :
                 dom \in {d \in SUBSET pairs : Cardinality(d) <= MaxPrefEntries}}

NoRuleRow == [present |-> FALSE, value |-> <<>>]
RuleRows ==
    {NoRuleRow} \cup {[present |-> TRUE, value |-> IntToStr(n)] : n \in -1..MaxCap}

----------------------------------------------------------------------------
(* generate_schedule: the model builder *)

\* key of the decision variable of employee e, day d, shift s, task t
Key(e, d, s, t) == <<e.id, d, s, t.id>>

\* --- Create Variables ---
CreateVariables ==
    {Key(e, d, s, t) : e \in Range(employees), d \in Range(days),
                       s \in Range(shifts), t \in Range(tasks)}

\* slip: one AddAtMostOne per (task, employee) instead of one per task
TaskAtMostOnePerEmployee ==
    {{Key(e, d, s, t) : d \in Range(days), s \in Range(shifts)} :
        t \in Range(tasks), e \in Range(employees)}

\* Each task can be assigned to AT MOST one employee.
TaskAtMostOne ==
    {{Key(e, d, s, t) : e \in Range(employees), d \in Range(days),
                        s \in Range(shifts)} : t \in Range(tasks)}

\* slip: the skill test is left out
SkillGateDropped == {}

\* slip: a task without a required skill is taken to need no skill
SkillGateNoneMatchesAll ==
    {k \in CreateVariables :
        \E e \in Range(employees), d \in Range(days), s \in Range(shifts),
           t \in Range(tasks) :
            /\ k = Key(e, d, s, t)
            /\ t.required_skill # None
            /\ t.required_skill \notin e.skills}

\* An employee must have the required skill for a task.
SkillGate ==
    {k \in CreateVariables :
        \E e \in Range(employees), d \in Range(days), s \in Range(shifts),
           t \in Range(tasks) :
            /\ k = Key(e, d, s, t)
            /\ t.required_skill \notin e.skills}

\* slip: only the first shift of an unavailable day is closed
AvailabilityGateFirstShiftOnly ==
    {k \in CreateVariables :
        \E e \in Range(employees), t \in Range(tasks) :
            \E d \in e.unavailable_days :
                /\ d \in Range(days)
                /\ k = Key(e, d, shifts[1], t)}

\* An employee cannot be scheduled on their unavailable days.
AvailabilityGate ==
    {k \in CreateVariables :
        \E e \in Range(employees), s \in Range(shifts), t \in Range(tasks) :
            \E d \in e.unavailable_days :
                /\ d \in Range(days)
                /\ k = Key(e, d, s, t)}

\* slip: the per-slot AddAtMostOne is left out
SlotAtMostOneDropped == {}

\* Each employee can do at most one task per shift.
SlotAtMostOne ==
    {{Key(e, d, s, t) : t \in Range(tasks)} :
        e \in Range(employees), d \in Range(days), s \in Range(shifts)}

\* the default as the number of slots of the grid
MaxShiftsOfSlotCount(r) == DictGet(r, RuleName, Len(days) * Len(shifts))

\* rules.get('max_shifts_per_week', 7)
MaxShiftsOf(r) == DictGet(r, RuleName, DefaultMaxShifts)

\* slip: the sum is taken per day instead of over the week
WeeklyCapPerDay(cap) ==
    {[vars |-> {Key(e, d, s, t) : s \in Range(shifts), t \in Range(tasks)},
      ub |-> cap] : e \in Range(employees), d \in Range(days)}

\* Enforce the "Max Shifts Per Week" rule: sum(vars of emp) <= max_shifts
WeeklyCap(cap) ==
    {[vars |-> {Key(e, d, s, t) : d \in Range(days), s \in Range(shifts),
                                  t \in Range(tasks)},
      ub |-> cap] : e \in Range(employees)}

\* slip: the preference term is left out of the objective
CoefficientPriorityOnly(e, t) == t.priority

\* coefficient of one variable in model.Maximize(...)
Coefficient(e, t) == t.priority + DictGet(preferences, <<e.id, t.id>>, 0)

Objective ==
    [k \in CreateVariables |->
        LET e == CHOOSE e \in Range(employees) : e.id = k[1]
            t == CHOOSE t \in Range(tasks) : t.id = k[4]
        IN  Coefficient(e, t)]

EmptyModel ==
    [at_most_one |-> {}, zero |-> {}, linear |-> {},
     objective |-> [k \in {} |-> 0]]

----------------------------------------------------------------------------
(* CP-SAT, by its contract *)

\* x (the variables set to 1) satisfies every constraint added to m
Feasible(m, x) ==
    /\ x \cap m.zero = {}
    /\ \A c \in m.at_most_one : Cardinality(c \cap x) <= 1
    /\ \A l \in m.linear : Cardinality(l.vars \cap x) <= l.ub

ObjectiveValue(m, x) == SumOver(x, m.objective)

\* A variable fixed to 0 is 1 in no feasible assignment, so the feasible
\* assignments are looked for among the sets of the other variables.
FeasibleSet(m) ==
    {x \in SUBSET (DOMAIN m.objective \ m.zero) : Feasible(m, x)}

\* solver.Solve(model) runs without a time limit: it ends with a proved
\* optimum, or with the proof that no assignment is feasible.
OptimalSet(m) ==
    LET F == FeasibleSet(m)
    IN  {x \in F : \A y \in F : ObjectiveValue(m, y) <= ObjectiveValue(m, x)}

----------------------------------------------------------------------------
(* generate_schedule: the solution extractor *)

\* slip: the loops nested employee first, as in the model builder
ExtractionOrderEmployeeMajor ==
    LET D == Len(days)
        S == Len(shifts)
        E == Len(employees)
        T == Len(tasks)
    IN  [k \in 1..(D * S * E * T) |->
            [e |-> ((k - 1) \div (D * S * T)) + 1,
             d |-> (((k - 1) \div (S * T)) % D) + 1,
             s |-> (((k - 1) \div T) % S) + 1,
             t |-> ((k - 1) % T) + 1]]

\* for day in days: for shift in shifts: for emp in employees: for task in tasks
ExtractionOrder ==
    LET D == Len(days)
        S == Len(shifts)
        E == Len(employees)
        T == Len(tasks)
    IN  [k \in 1..(D * S * E * T) |->
            [d |-> ((k - 1) \div (S * E * T)) + 1,
             s |-> (((k - 1) \div (E * T)) % S) + 1,
             e |-> (((k - 1) \div T) % E) + 1,
             t |-> ((k - 1) % T) + 1]]

KeyAt(q) == Key(employees[q.e], days[q.d], shifts[q.s], tasks[q.t])

Entry(q) ==
    [day |-> days[q.d], shift |-> shifts[q.s],
     employee_id |-> employees[q.e].id, employee_name |-> employees[q.e].name,
     task_id |-> tasks[q.t].id, task_name |-> tasks[q.t].name]

\* the entries appended while the loops run, in the order they are appended
ExtractSchedule(x) ==
    LET IsOne(q) == KeyAt(q) \in x
        hits == SelectSeq(ExtractionOrder, IsOne)
    IN  [i \in 1..Len(hits) |-> Entry(hits[i])]

AssignedTaskIds(sched) == {sched[i].task_id : i \in DOMAIN sched}

\* slip: the filter is left out and every task is returned
UnscheduledAll(sched) == tasks

\* [t for t in tasks if t['id'] in unscheduled_task_ids]
Unscheduled(sched) ==
    LET all_task_ids == {t.id : t \in Range(tasks)}
        unscheduled_task_ids == all_task_ids \ AssignedTaskIds(sched)
        Keep(t) == t.id \in unscheduled_task_ids
    IN  SelectSeq(tasks, Keep)

----------------------------------------------------------------------------
(* The run *)

Init ==
    /\ \E ne \in 0..MaxEmployees, nt \in 0..MaxTasks, nd \in 1..MaxDays,
          ns \in 1..Len(SHIFTS) :
        /\ ne * nt * nd * ns <= MaxVars
        /\ employees \in EmployeeLists(ne)
        /\ tasks \in TaskLists(nt)
        /\ days = SubSeq(DAYS, 1, nd)
        /\ shifts = SubSeq(SHIFTS, 1, ns)
    /\ preferences \in PreferenceDicts(employees, tasks)
    /\ \/ pc = "request" /\ rule_row \in RuleRows
       \/ pc = "call" /\ rule_row = NoRuleRow
    /\ rules = EmptyDict
    /\ assignment = {}
    /\ model = EmptyModel
    /\ max_shifts = 0
    /\ status = "NONE"
    /\ solution = {}
    /\ schedule = <<>>
    /\ unscheduled_tasks = <<>>

\* app.py get_solver_data: the rules dict always holds the key
GetSolverData ==
    /\ pc = "request"
    /\ rules' = [k \in {RuleName} |->
                    IF rule_row.present THEN StrToInt(rule_row.value)
                    ELSE AppDefaultMaxShifts]
    /\ pc' = "call"
    /\ UNCHANGED <<inputs, assignment, model, max_shifts, status, solution,
                   schedule, unscheduled_tasks>>

\* solver.py lines 8-73: variables, constraints, objective
BuildModel ==
    /\ pc = "call"
    /\ assignment' = CreateVariables
    /\ max_shifts' = MaxShiftsOf(rules)
    /\ model' = [at_most_one |-> TaskAtMostOne \cup SlotAtMostOne,
                 zero |-> SkillGate \cup AvailabilityGate,
                 linear |-> WeeklyCap(MaxShiftsOf(rules)),
                 objective |-> Objective]
    /\ pc' = "built"
    /\ UNCHANGED <<inputs, rules, status, solution, schedule, unscheduled_tasks>>

\* solver.py lines 76-77
Solve ==
    /\ pc = "built"
    /\ \/ /\ FeasibleSet(model) = {}
          /\ status' = "INFEASIBLE"
          /\ solution' = {}
       \/ /\ status' = "OPTIMAL"
          /\ solution' \in OptimalSet(model)
    /\ pc' = "solved"
    /\ UNCHANGED <<inputs, rules, assignment, model, max_shifts, schedule,
                   unscheduled_tasks>>

\* solver.py lines 82-101
ExtractSolution ==
    /\ pc = "solved"
    /\ status \in {"OPTIMAL", "FEASIBLE"}
    /\ schedule' = ExtractSchedule(solution)
    /\ unscheduled_tasks' = Unscheduled(ExtractSchedule(solution))
    /\ pc' = "done"
    /\ UNCHANGED <<inputs, rules, assignment, model, max_shifts, status, solution>>

\* solver.py lines 102-103
ReturnFallback ==
    /\ pc = "solved"
    /\ status \notin {"OPTIMAL", "FEASIBLE"}
    /\ schedule' = <<>>
    /\ unscheduled_tasks' = tasks
    /\ pc' = "done"
    /\ UNCHANGED <<inputs, rules, assignment, model, max_shifts, status, solution>>

Next ==
    \/ GetSolverData
    \/ BuildModel
    \/ Solve
    \/ ExtractSolution
    \/ ReturnFallback

Spec == Init /\ [][Next]_vars

----------------------------------------------------------------------------
(* What the claims read: the returned lists and the arguments *)

Returned == pc = "done"

EmployeeOf(entry) == CHOOSE e \in Range(employees) : e.id = entry.employee_id
TaskOf(entry) == CHOOSE t \in Range(tasks) : t.id = entry.task_id
Entries == Range(schedule)

IndexOf(list, x) == CHOOSE i \in DOMAIN list : list[i] = x
EmployeeIndex(id) == CHOOSE i \in DOMAIN employees : employees[i].id = id
TaskIndex(id) == CHOOSE i \in DOMAIN tasks : tasks[i].id = id

Eligible(e, t) == t.required_skill \in e.skills
Weight(e, t) == t.priority + DictGet(preferences, <<e.id, t.id>>, 0)
AvailableDays(e) == Range(days) \ e.unavailable_days
PlacedIds == {x.task_id : x \in Entries}
UnscheduledIds == {unscheduled_tasks[i].id : i \in DOMAIN unscheduled_tasks}
PlacementsOf(e) == {i \in DOMAIN schedule : schedule[i].employee_id = e.id}

----------------------------------------------------------------------------
\* C1: every entry of the returned schedule pairs an employee and a task
\* whose required_skill is among that employee's skills.
C1_SkillGate ==
    Returned => \A x \in Entries : TaskOf(x).required_skill \in EmployeeOf(x).skills

\* a run that placed a task and left a positive-priority task unplaced that
\* only lacks a skilled employee (there is a free, available slot for it)
C1_Witness ==
    /\ Returned
    /\ Len(schedule) = 1
    /\ Len(employees) = 1
    /\ \E i \in DOMAIN unscheduled_tasks :
          /\ unscheduled_tasks[i].required_skill \in Skills
          /\ unscheduled_tasks[i].priority > 0
          /\ ~Eligible(employees[1], unscheduled_tasks[i])
    /\ Cardinality(AvailableDays(employees[1])) = 2
    /\ max_shifts >= 2

\* C2: no entry lies on an unavailable day of its employee; a sole employee
\* who is unavailable on every day of the grid leaves every task unscheduled.
C2_AvailabilityGate ==
    Returned =>
        /\ \A x \in Entries : x.day \notin EmployeeOf(x).unavailable_days
        /\ (Len(employees) = 1 /\ AvailableDays(employees[1]) = {})
              => (schedule = <<>> /\ unscheduled_tasks = tasks)

\* the sole employee is unavailable all week although a task matches their
\* skills, has a positive priority and the cap leaves room
C2_Witness ==
    /\ Returned
    /\ status = "OPTIMAL"
    /\ Len(employees) = 1
    /\ Len(days) = 2
    /\ AvailableDays(employees[1]) = {}
    /\ max_shifts >= 1
    /\ \E t \in Range(tasks) : Eligible(employees[1], t) /\ t.priority > 0
    /\ schedule = <<>>
    /\ unscheduled_tasks = tasks

\* C3: a task id appears in at most one entry of the returned schedule.
C3_TaskAtMostOnce ==
    Returned =>
        \A t \in Range(tasks) :
            Cardinality({i \in DOMAIN schedule : schedule[i].task_id = t.id}) <= 1

\* a placed task that two employees could each have taken on two days
C3_Witness ==
    /\ Returned
    /\ Len(employees) = 2
    /\ Len(days) = 2
    /\ Len(tasks) = 1
    /\ Len(schedule) = 1
    /\ \A e \in Range(employees) :
          /\ Eligible(e, tasks[1])
          /\ e.unavailable_days = {}
    /\ tasks[1].priority > 0
    /\ max_shifts >= 2

\* C4: at most one entry of the returned schedule has a given employee_id,
\* day and shift.
C4_SlotAtMostOnce ==
    Returned =>
        \A i, j \in DOMAIN schedule :
            (/\ schedule[i].employee_id = schedule[j].employee_id
             /\ schedule[i].day = schedule[j].day
             /\ schedule[i].shift = schedule[j].shift) => i = j

\* one employee, one slot, two tasks the employee could do and a cap that
\* allows both: one is placed, the other is not
C4_Witness ==
    /\ Returned
    /\ Len(employees) = 1 /\ Len(days) = 1 /\ Len(shifts) = 1 /\ Len(tasks) = 2
    /\ employees[1].unavailable_days = {}
    /\ \A t \in Range(tasks) : Eligible(employees[1], t) /\ t.priority > 0
    /\ max_shifts >= 2
    /\ Len(schedule) = 1
    /\ Len(unscheduled_tasks) = 1

C6_Partition ==
    Returned =>
        /\ PlacedIds \cap UnscheduledIds = {}
        /\ PlacedIds \cup UnscheduledIds = {t.id : t \in Range(tasks)}

\* a solved run with one task placed and one left over
C6_Witness ==
    /\ Returned
    /\ status = "OPTIMAL"
    /\ Len(schedule) = 1
    /\ Len(unscheduled_tasks) = 1
    /\ schedule[1].task_id # unscheduled_tasks[1].id

----------------------------------------------------------------------------
(* The placements the constraints of the spec allow, stated on the lists *)

\* a placement is (employee index, day index, shift index, task index)
Candidates ==
    {q \in (DOMAIN employees) \X (DOMAIN days) \X (DOMAIN shifts) \X (DOMAIN tasks) :
        /\ Eligible(employees[q[1]], tasks[q[4]])
        /\ days[q[2]] \notin employees[q[1]].unavailable_days}

Allowed(P) ==
    /\ \A p, q \in P : p[4] = q[4] => p = q
    /\ \A p, q \in P : (p[1] = q[1] /\ p[2] = q[2] /\ p[3] = q[3]) => p = q
    /\ \A e \in DOMAIN employees :
          Cardinality({p \in P : p[1] = e}) <= max_shifts

PlacementWeight == [q \in Candidates |-> Weight(employees[q[1]], tasks[q[4]])]

ScheduleWeight ==
    SumOver(DOMAIN schedule,
            [i \in DOMAIN schedule |->
                Weight(EmployeeOf(schedule[i]), TaskOf(schedule[i]))])

\* C7: the returned schedule's sum of priority + preference is at least that
\* of every set of placements that satisfies the skill gate, the availability
\* gate, at most one per task, at most one per employee-slot and the cap.
C7_Optimal ==
    Returned =>
        \A P \in SUBSET Candidates :
            Allowed(P) => SumOver(P, PlacementWeight) <= ScheduleWeight

\* cap 1, one employee, two tasks the employee could do: the task placed has
\* the lower priority and wins by its learned preference
C7_Witness ==
    /\ Returned
    /\ Len(employees) = 1 /\ Len(tasks) = 2
    /\ max_shifts = 1
    /\ AvailableDays(employees[1]) # {}
    /\ \A t \in Range(tasks) : Eligible(employees[1], t)
    /\ Len(schedule) = 1
    /\ Len(unscheduled_tasks) = 1
    /\ TaskOf(schedule[1]).priority < unscheduled_tasks[1].priority
    /\ Weight(employees[1], TaskOf(schedule[1]))
          > Weight(employees[1], unscheduled_tasks[1])

----------------------------------------------------------------------------
NoRuleSet == ~rule_row.present
Built == pc \in {"built", "solved", "done"}

\* C8 as stated: with no rule set the cap applied is |days| x |shifts|.
C8_DefaultIsSlotCount ==
    (Built /\ NoRuleSet) => max_shifts = Len(days) * Len(shifts)

\* C8 amended: with no rule set (no Rule record read by get_solver_data, or
\* no key in the rules passed to generate_schedule) the cap applied is 7,
\* whatever the size of the grid.
C8_DefaultIsSeven ==
    /\ (pc # "request" /\ NoRuleSet /\ RuleName \in DOMAIN rules) => rules[RuleName] = 7
    /\ (Built /\ NoRuleSet) => max_shifts = 7

\* a run called without the key that placed a task on every slot of a
\* two-slot grid under the cap of 7
C8_Witness ==
    /\ Returned
    /\ RuleName \notin DOMAIN rules
    /\ max_shifts = 7
    /\ Len(employees) = 1
    /\ Len(days) * Len(shifts) = 2
    /\ Len(schedule) = 2

----------------------------------------------------------------------------
Malformed(t) == t.required_skill = None \/ t.priority < 0

\* C9 as stated: a task list with a malformed task is rejected before any
\* decision variable is created: no schedule computed from it is returned.
C9_MalformedRejected ==
    (\E t \in Range(tasks) : Malformed(t)) =>
        ~(Returned /\ assignment # {} /\ schedule # <<>>)

\* C9 amended: generate_schedule returns a result for such input too; in it
\* a task with no required skill is never placed and is returned as
\* unscheduled, and no task is placed where its priority plus the pair's
\* preference is negative.
C9_MalformedDegrades ==
    Returned =>
        /\ \A t \in Range(tasks) :
              t.required_skill = None =>
                  (t.id \notin PlacedIds /\ t.id \in UnscheduledIds)
        /\ \A x \in Entries : Weight(EmployeeOf(x), TaskOf(x)) >= 0

\* a returned schedule that places a negative-priority task (its preference
\* outweighs it) next to an unplaced task with no required skill
C9_Witness ==
    /\ Returned
    /\ assignment # {}
    /\ \E x \in Entries : TaskOf(x).priority < 0
    /\ \E i \in DOMAIN unscheduled_tasks : unscheduled_tasks[i].required_skill = None

----------------------------------------------------------------------------
\* position of an entry in the grid: (day, shift, employee, task) indices
GridPosition(x) ==
    <<IndexOf(days, x.day), IndexOf(shifts, x.shift),
      EmployeeIndex(x.employee_id), TaskIndex(x.task_id)>>

LexLess(a, b) ==
    \E k \in 1..4 : a[k] < b[k] /\ \A j \in 1..(k - 1) : a[j] = b[j]

\* C10: an earlier entry of the schedule has the lexicographically smaller
\* (day, shift, employee, task) index tuple, and the unscheduled list keeps
\* the order of the task list.
C10_Ordering ==
    Returned =>
        /\ \A i, j \in DOMAIN schedule :
              i < j => LexLess(GridPosition(schedule[i]), GridPosition(schedule[j]))
        /\ \A i, j \in DOMAIN unscheduled_tasks :
              i < j => TaskIndex(unscheduled_tasks[i].id)
                         < TaskIndex(unscheduled_tasks[j].id)

\* two entries where the earlier one has the later employee and the later
\* task of the lists, and the earlier day
C10_Witness ==
    /\ Returned
    /\ Len(schedule) = 2
    /\ IndexOf(days, schedule[1].day) < IndexOf(days, schedule[2].day)
    /\ EmployeeIndex(schedule[1].employee_id) > EmployeeIndex(schedule[2].employee_id)
    /\ TaskIndex(schedule[1].task_id) > TaskIndex(schedule[2].task_id)

====
